---- MODULE Spec2Model ----
(***************************************************************************)
(* Minra-Mosaique core: Bayer sampling (core/mosaicing.py), demosaicing    *)
(* (core/demosaicing.py) and the .mosaic container (core/mosaic_format.py).*)
(*                                                                         *)
(* Every operation of the core is a pure function of its arguments.  The   *)
(* state machine holds the arguments a caller currently has in hand and    *)
(* the value (or the raised error) of the last call of each operation.     *)
(*                                                                         *)
(* Arrays are 0-indexed as in the source: a 2D array is a record           *)
(* [ndim, h, w, ch, px] with px a function over (0..h-1) \X (0..w-1).      *)
(* A raised exception is a record [ok |-> FALSE, err |-> kind]; the kinds  *)
(* name the ValueError messages of the source (see each operator).         *)
(***************************************************************************)
EXTENDS Integers, Sequences, FiniteSets, TLC

VARIABLES
    img,       \* the array handed to apply_bayer_mosaic
    cfa,       \* result of apply_bayer_mosaic(img)
    rgbOut,    \* result of the last generate_colorized_view / demosaic call
    masksOut,  \* result of the last get_bayer_masks call
    op,        \* the last image operation: its name, algorithm and pattern
    encIn,     \* arguments of the last encode_mosaic call
    encOut,    \* result of the last encode_mosaic call
    buf,       \* the byte buffer the caller holds
    decOut,    \* result of decode_mosaic(buf)
    infoOut,   \* result of get_mosaic_info(buf)
    phase      \* where the caller of the codec stands

bayerVars == <<img, cfa, rgbOut, masksOut, op>>
codecVars == <<encIn, encOut, buf, decOut, infoOut, phase>>
vars == <<img, cfa, rgbOut, masksOut, op, encIn, encOut, buf, decOut, infoOut, phase>>

(***************************************************************************)
(* Bounds of the model.                                                    *)
(***************************************************************************)
MaxDim == 3          \* images and CFA grids are 1..MaxDim on each side

None == [ok |-> FALSE, err |-> "none"]
Raise(kind) == [ok |-> FALSE, err |-> kind]
Return(v) == [ok |-> TRUE, err |-> "", val |-> v]

Pos(h, w) == (0 .. (h - 1)) \X (0 .. (w - 1))

(***************************************************************************)
(* The arrays a caller may hand to apply_bayer_mosaic: 3-channel images    *)
(* whose samples all differ by position and channel (a ramp), and arrays   *)
(* of the wrong rank or channel count.                                     *)
(***************************************************************************)
Bases == {0, 7, 250}
RowSteps == {0, 1, 16}
ColSteps == {0, 1, 5}
ChanSteps == {0, 1, 40}

MkArray(nd, h, w, nch, base, dr, dc, dk) ==
    [ndim |-> nd, h |-> h, w |-> w, ch |-> nch,
     px |-> [p \in Pos(h, w) |->
               [k \in 0 .. (nch - 1) |-> (base + dr * p[1] + dc * p[2] + dk * k) % 256]]]

RGBImages ==
    { MkArray(3, h, w, 3, b, dr, dc, dk) :
        h \in 1 .. MaxDim, w \in 1 .. MaxDim,
        b \in Bases, dr \in RowSteps, dc \in ColSteps, dk \in ChanSteps }

\* a 2D greyscale array (shape (h, w)), and 3D arrays with 1 or 4 channels
BadShapeArrays ==
    { MkArray(2, h, w, 1, 7, 1, 5, 0) : h \in 1 .. 2, w \in 1 .. 2 }
    \cup { MkArray(3, h, w, nch, 7, 1, 5, 40) : h \in 1 .. 2, w \in 1 .. 2, nch \in {1, 4} }

(***************************************************************************)
(* core/mosaicing.py                                                       *)
(***************************************************************************)
\* numpy dst[r0::2, c0::2] = src[r0::2, c0::2]
InSlice(p, r0, c0) ==
    /\ p[1] >= r0 /\ (p[1] - r0) % 2 = 0
    /\ p[2] >= c0 /\ (p[2] - c0) % 2 = 0

SliceAssign(dst, r0, c0, src) ==
    [p \in DOMAIN dst |-> IF InSlice(p, r0, c0) THEN src[p] ELSE dst[p]]

Zeros(h, w) == [p \in Pos(h, w) |-> 0]

Channel(a, k) == [p \in Pos(a.h, a.w) |-> a.px[p][k]]

Grid(h, w, px) == [ndim |-> 2, h |-> h, w |-> w, px |-> px]

\* Mutant: the odd-row green slice reads the blue channel.
apply_bayer_mosaic_BlueInOddRows(rgb_image) ==
    IF rgb_image.ndim # 3 \/ rgb_image.ch # 3
    THEN Raise("InvalidShape")
    ELSE LET h == rgb_image.h
             w == rgb_image.w
             c0 == Zeros(h, w)
             c1 == SliceAssign(c0, 0, 0, Channel(rgb_image, 0))
             c2 == SliceAssign(c1, 0, 1, Channel(rgb_image, 1))
             c3 == SliceAssign(c2, 1, 0, Channel(rgb_image, 2))
             c4 == SliceAssign(c3, 1, 1, Channel(rgb_image, 2))
         IN  Return(Grid(h, w, c4))

\* raises ValueError("Input must be an RGB image with shape (H, W, 3)"): InvalidShape
apply_bayer_mosaic(rgb_image) ==
    IF rgb_image.ndim # 3 \/ rgb_image.ch # 3
    THEN Raise("InvalidShape")
    ELSE LET h == rgb_image.h
             w == rgb_image.w
             c0 == Zeros(h, w)
             c1 == SliceAssign(c0, 0, 0, Channel(rgb_image, 0))
             c2 == SliceAssign(c1, 0, 1, Channel(rgb_image, 1))
             c3 == SliceAssign(c2, 1, 0, Channel(rgb_image, 1))
             c4 == SliceAssign(c3, 1, 1, Channel(rgb_image, 2))
         IN  Return(Grid(h, w, c4))

\* an (h, w, 3) uint8 array of zeros
Zeros3(h, w) == [p \in Pos(h, w) |-> [k \in 0 .. 2 |-> 0]]

\* numpy dst[r0::2, c0::2, k] = src[r0::2, c0::2]
SliceAssignChan(dst, r0, c0, k, src) ==
    [p \in DOMAIN dst |->
        IF InSlice(p, r0, c0) THEN [dst[p] EXCEPT ![k] = src[p]] ELSE dst[p]]

RGB(h, w, px) == [ndim |-> 3, h |-> h, w |-> w, ch |-> 3, px |-> px]

\* Mutant: the blue samples are written to the green channel.
generate_colorized_view_BlueToGreen(c) ==
    LET h == c.h
        w == c.w
        v0 == Zeros3(h, w)
        v1 == SliceAssignChan(v0, 0, 0, 0, c.px)
        v2 == SliceAssignChan(v1, 0, 1, 1, c.px)
        v3 == SliceAssignChan(v2, 1, 0, 1, c.px)
        v4 == SliceAssignChan(v3, 1, 1, 1, c.px)
    IN  Return(RGB(h, w, v4))

generate_colorized_view(c) ==
    LET h == c.h
        w == c.w
        v0 == Zeros3(h, w)
        v1 == SliceAssignChan(v0, 0, 0, 0, c.px)
        v2 == SliceAssignChan(v1, 0, 1, 1, c.px)
        v3 == SliceAssignChan(v2, 1, 0, 1, c.px)
        v4 == SliceAssignChan(v3, 1, 1, 2, c.px)
    IN  Return(RGB(h, w, v4))

Falses(h, w) == [p \in Pos(h, w) |-> FALSE]

\* numpy mask[r0::2, c0::2] = True
SliceSet(dst, r0, c0) ==
    [p \in DOMAIN dst |-> IF InSlice(p, r0, c0) THEN TRUE ELSE dst[p]]

\* Mutant: the green mask misses the odd rows.
get_bayer_masks_GreenEvenRowsOnly(height, width) ==
    LET R_mask == SliceSet(Falses(height, width), 0, 0)
        G_mask == SliceSet(Falses(height, width), 0, 1)
        B_mask == SliceSet(Falses(height, width), 1, 1)
    IN  [R |-> R_mask, G |-> G_mask, B |-> B_mask]

\* get_bayer_masks takes the dimensions only: the masks are those of RGGB
get_bayer_masks(height, width) ==
    LET R_mask == SliceSet(Falses(height, width), 0, 0)
        G_mask == SliceSet(SliceSet(Falses(height, width), 0, 1), 1, 0)
        B_mask == SliceSet(Falses(height, width), 1, 1)
    IN  [R |-> R_mask, G |-> G_mask, B |-> B_mask]

(***************************************************************************)
(* core/demosaicing.py                                                     *)
(***************************************************************************)
\* Mutant: the green sum g1 + g2 is taken in 8 bits and wraps at 256.
NNBlocks_GreenSumWraps(c) ==
    [p \in Pos(c.h, c.w) |->
        LET y == 2 * (p[1] \div 2)
            x == 2 * (p[2] \div 2)
        IN  IF y < c.h - 1 /\ x < c.w - 1
            THEN LET r  == c.px[<<y, x>>]
                     g1 == c.px[<<y, x + 1>>]
                     g2 == c.px[<<y + 1, x>>]
                     b  == c.px[<<y + 1, x + 1>>]
                     g  == ((g1 + g2) % 256) \div 2
                 IN  [k \in 0 .. 2 |-> IF k = 0 THEN r ELSE IF k = 1 THEN g ELSE b]
            ELSE [k \in 0 .. 2 |-> 0]]

\* The loop over the 2x2 blocks (y, x even, y < h - 1, x < w - 1): the blocks
\* are disjoint, so the array after the loop is given block by block.  A pixel
\* of an incomplete trailing block keeps the zero of np.zeros.
NNBlocks(c) ==
    [p \in Pos(c.h, c.w) |->
        LET y == 2 * (p[1] \div 2)
            x == 2 * (p[2] \div 2)
        IN  IF y < c.h - 1 /\ x < c.w - 1
            THEN LET r  == c.px[<<y, x>>]
                     g1 == c.px[<<y, x + 1>>]
                     g2 == c.px[<<y + 1, x>>]
                     b  == c.px[<<y + 1, x + 1>>]
                     g  == (g1 + g2) \div 2
                 IN  [k \in 0 .. 2 |-> IF k = 0 THEN r ELSE IF k = 1 THEN g ELSE b]
            ELSE [k \in 0 .. 2 |-> 0]]

\* rgb[-1, :] = rgb[-2, :]
CopyLastRow(px, h) == [p \in DOMAIN px |-> IF p[1] = h - 1 THEN px[<<h - 2, p[2]>>] ELSE px[p]]

\* rgb[:, -1] = rgb[:, -2]
CopyLastCol(px, w) == [p \in DOMAIN px |-> IF p[2] = w - 1 THEN px[<<p[1], w - 2>>] ELSE px[p]]

\* The index -2 on an axis of size 1 raises numpy's IndexError.
demosaic_nearest_neighbor(c) ==
    LET h == c.h
        w == c.w
        rgb0 == NNBlocks(c)
    IN  IF h % 2 = 1 /\ h < 2
        THEN Raise("IndexError")
        ELSE LET rgb1 == IF h % 2 = 1 THEN CopyLastRow(rgb0, h) ELSE rgb0
             IN  IF w % 2 = 1 /\ w < 2
                 THEN Raise("IndexError")
                 ELSE LET rgb2 == IF w % 2 = 1 THEN CopyLastCol(rgb1, w) ELSE rgb1
                      IN  Return(RGB(h, w, rgb2))

\* float64 planes are held as integers scaled by Den: every value the kernels
\* produce from 8-bit samples is a multiple of 1/16, exactly representable.
Den == 2 * 8

\* scipy.ndimage mode='reflect': (d c b a | a b c d | d c b a)
Reflect(i, n) ==
    LET j == i % (2 * n)
    IN  IF j < n THEN j ELSE 2 * n - 1 - j

RECURSIVE ConvSum(_, _, _, _, _, _)
ConvSum(a, h, w, K, p, idx) ==
    IF idx = 0
    THEN 0
    ELSE LET n == Len(K)
             m == n \div 2
             i == (idx - 1) \div n
             j == (idx - 1) % n
             wt == K[i + 1][j + 1]
             term == IF wt = 0
                     THEN 0
                     ELSE wt * a[<<Reflect(p[1] + m - i, h), Reflect(p[2] + m - j, w)>>]
         IN  term + ConvSum(a, h, w, K, p, idx - 1)

\* scipy.ndimage.convolve(a, K / div, mode='reflect')
convolve(a, h, w, K, div) ==
    [p \in Pos(h, w) |-> ConvSum(a, h, w, K, p, Len(K) * Len(K)) \div div]

\* Mutant: the assignment ignores its mask and writes the whole plane.
MaskAssign_IgnoresMask(dst, mask, src, factor) ==
    [p \in DOMAIN dst |-> src[p] * factor]

\* dst[mask] = src[mask] * factor
MaskAssign(dst, mask, src, factor) ==
    [p \in DOMAIN dst |-> IF mask[p] THEN src[p] * factor ELSE dst[p]]

\* a * mask
Masked(a, mask) == [p \in DOMAIN a |-> IF mask[p] THEN a[p] ELSE 0]

\* cfa.astype(np.float64)
AsFloat(c) == [p \in Pos(c.h, c.w) |-> Den * c.px[p]]

\* Mutant: the cast rounds to the nearest integer, halves up.
ClipCast_RoundsToNearest(v) ==
    LET clipped == IF v < 0 THEN 0 ELSE IF v > 255 * Den THEN 255 * Den ELSE v
    IN  (2 * clipped + Den) \div (2 * Den)

\* np.clip(v, 0, 255).astype(np.uint8): the cast drops the fraction
ClipCast(v) ==
    LET clipped == IF v < 0 THEN 0 ELSE IF v > 255 * Den THEN 255 * Den ELSE v
    IN  clipped \div Den

\* np.stack([R, G, B], axis=-1), clipped and cast
StackClip(h, w, R, G, B) ==
    [p \in Pos(h, w) |->
        [k \in 0 .. 2 |-> ClipCast(IF k = 0 THEN R[p] ELSE IF k = 1 THEN G[p] ELSE B[p])]]

G_at_R_row(h, w) == SliceSet(Falses(h, w), 0, 1)
G_at_B_row(h, w) == SliceSet(Falses(h, w), 1, 0)

kernel_G_at_RB == << <<0, 1, 0>>, <<1, 4, 1>>, <<0, 1, 0>> >>   \* / 4
kernel_RB_horiz == << <<0, 0, 0>>, <<1, 0, 1>>, <<0, 0, 0>> >>  \* / 2
kernel_RB_vert == << <<0, 1, 0>>, <<0, 0, 0>>, <<0, 1, 0>> >>   \* / 2
kernel_RB_at_BR == << <<1, 0, 1>>, <<0, 0, 0>>, <<1, 0, 1>> >>  \* / 4

\* One assignment plane[mask] = src[mask] * factor of the source; kind tells
\* the copies of known samples from the interpolations.
Assign(plane, mask, src, factor, kind) ==
    [plane |-> plane, mask |-> mask, src |-> src, factor |-> factor, kind |-> kind]

\* The plane after the first n assignments, from np.zeros_like(cfa_float).
RECURSIVE Assigned(_, _, _, _)
Assigned(steps, plane, zero, n) ==
    IF n = 0
    THEN zero
    ELSE LET prev == Assigned(steps, plane, zero, n - 1)
             s == steps[n]
         IN  IF s.plane = plane
             THEN MaskAssign(prev, s.mask, s.src, s.factor)
             ELSE prev

\* R, G, B as they stand before np.stack
Planes(h, w, steps) ==
    [R |-> Assigned(steps, "R", Zeros(h, w), Len(steps)),
     G |-> Assigned(steps, "G", Zeros(h, w), Len(steps)),
     B |-> Assigned(steps, "B", Zeros(h, w), Len(steps))]

\* The assignments of demosaic_bilinear, in source order.
bilinear_assignments(c) ==
    LET h == c.h
        w == c.w
        cfa_float == AsFloat(c)
        m == get_bayer_masks(h, w)
        G_interp == convolve(cfa_float, h, w, kernel_G_at_RB, 4)
        GR == G_at_R_row(h, w)
        GB == G_at_B_row(h, w)
        R_horiz == convolve(Masked(cfa_float, m.R), h, w, kernel_RB_horiz, 2)
        R_vert == convolve(Masked(cfa_float, m.R), h, w, kernel_RB_vert, 2)
        B_horiz == convolve(Masked(cfa_float, m.B), h, w, kernel_RB_horiz, 2)
        B_vert == convolve(Masked(cfa_float, m.B), h, w, kernel_RB_vert, 2)
        R_diag == convolve(Masked(cfa_float, m.R), h, w, kernel_RB_at_BR, 4)
        B_diag == convolve(Masked(cfa_float, m.B), h, w, kernel_RB_at_BR, 4)
    IN  << Assign("R", m.R, cfa_float, 1, "copy"),
           Assign("G", m.G, cfa_float, 1, "copy"),
           Assign("B", m.B, cfa_float, 1, "copy"),
           Assign("G", m.R, G_interp, 1, "interp"),
           Assign("G", m.B, G_interp, 1, "interp"),
           Assign("R", GR, R_horiz, 2, "interp"),
           Assign("R", GB, R_vert, 2, "interp"),
           Assign("B", GB, B_horiz, 2, "interp"),
           Assign("B", GR, B_vert, 2, "interp"),
           Assign("R", m.B, R_diag, 4, "interp"),
           Assign("B", m.R, B_diag, 4, "interp") >>

demosaic_bilinear(c) ==
    LET h == c.h
        w == c.w
        pl == Planes(h, w, bilinear_assignments(c))
    IN  Return(RGB(h, w, StackClip(h, w, pl.R, pl.G, pl.B)))

\* The 5x5 kernels; those with 0.5 and 1.5 entries are written doubled and
\* divided by 16 instead of 8.
GR_GB ==                                                        \* / 8
    << << 0,  0, -1,  0,  0>>,
       << 0,  0,  2,  0,  0>>,
       <<-1,  2,  4,  2, -1>>,
       << 0,  0,  2,  0,  0>>,
       << 0,  0, -1,  0,  0>> >>

Rg_RB_Bg_BR ==                                                  \* doubled, / 16
    << << 0,  0,  1,  0,  0>>,
       << 0, -2,  0, -2,  0>>,
       <<-2,  8, 10,  8, -2>>,
       << 0, -2,  0, -2,  0>>,
       << 0,  0,  1,  0,  0>> >>

Transpose(K) == [i \in 1 .. Len(K) |-> [j \in 1 .. Len(K) |-> K[j][i]]]

Rg_BR_Bg_RB == Transpose(Rg_RB_Bg_BR)

Rb_BB_Br_RR ==                                                  \* doubled, / 16
    << << 0,  0, -3,  0,  0>>,
       << 0,  4,  0,  4,  0>>,
       <<-3,  0, 12,  0, -3>>,
       << 0,  4,  0,  4,  0>>,
       << 0,  0, -3,  0,  0>> >>

\* The assignments of demosaic_malvar_he_cutler, in source order.
malvar_he_cutler_assignments(c) ==
    LET h == c.h
        w == c.w
        cfa_float == AsFloat(c)
        m == get_bayer_masks(h, w)
        GR == G_at_R_row(h, w)
        GB == G_at_B_row(h, w)
        G_interpolated == convolve(cfa_float, h, w, GR_GB, 8)
        RB_at_G_horiz == convolve(cfa_float, h, w, Rg_RB_Bg_BR, 16)
        RB_at_G_vert == convolve(cfa_float, h, w, Rg_BR_Bg_RB, 16)
        RB_at_BR == convolve(cfa_float, h, w, Rb_BB_Br_RR, 16)
    IN  << Assign("R", m.R, cfa_float, 1, "copy"),
           Assign("G", m.G, cfa_float, 1, "copy"),
           Assign("B", m.B, cfa_float, 1, "copy"),
           Assign("G", m.R, G_interpolated, 1, "interp"),
           Assign("G", m.B, G_interpolated, 1, "interp"),
           Assign("R", GB, RB_at_G_horiz, 1, "interp"),
           Assign("B", GR, RB_at_G_horiz, 1, "interp"),
           Assign("R", GR, RB_at_G_vert, 1, "interp"),
           Assign("B", GB, RB_at_G_vert, 1, "interp"),
           Assign("R", m.B, RB_at_BR, 1, "interp"),
           Assign("B", m.R, RB_at_BR, 1, "interp") >>

demosaic_malvar_he_cutler(c) ==
    LET h == c.h
        w == c.w
        pl == Planes(h, w, malvar_he_cutler_assignments(c))
    IN  Return(RGB(h, w, StackClip(h, w, pl.R, pl.G, pl.B)))

Algorithms == {"nearest_neighbor", "bilinear", "malvar_he_cutler"}

\* DEMOSAIC_ALGORITHMS[algorithm](cfa); an unknown name raises
\* ValueError("Unknown algorithm: ..."): UnknownAlgorithm
demosaic(c, algorithm) ==
    IF algorithm \notin Algorithms
    THEN Raise("UnknownAlgorithm")
    ELSE IF algorithm = "nearest_neighbor" THEN demosaic_nearest_neighbor(c)
    ELSE IF algorithm = "bilinear" THEN demosaic_bilinear(c)
    ELSE demosaic_malvar_he_cutler(c)

(***************************************************************************)
(* core/mosaic_format.py                                                   *)
(*                                                                         *)
(* A buffer is a sequence of bytes (0..255); offset k of the source is     *)
(* element k + 1.  Python integers are unbounded; a 32-bit field and the   *)
(* sums made from it are held as Wide numbers <<hi, lo>> = hi * 65536 + lo *)
(* with lo in 0..65535, so that no checker arithmetic wraps.               *)
(***************************************************************************)
MOSAIC_MAGIC == <<77, 79, 83, 65>>     \* b'MOSA'
MOSAIC_VERSION == 1
HEADER_SIZE == 20

BAYER_PATTERNS == [RGGB |-> 0, BGGR |-> 1, GRBG |-> 2, GBRG |-> 3]

\* {v: k for k, v in BAYER_PATTERNS.items()}
PATTERN_NAMES ==
    [id \in {BAYER_PATTERNS[k] : k \in DOMAIN BAYER_PATTERNS} |->
        CHOOSE k \in DOMAIN BAYER_PATTERNS : BAYER_PATTERNS[k] = id]

\* str.upper() on the pattern names a caller passes
PatternArgs == {"RGGB", "BGGR", "GRBG", "GBRG", "gbrg", "XTRANS"}
Upper(name) == IF name = "gbrg" THEN "GBRG" ELSE name

Wide(n) == <<n \div 65536, n % 65536>>
WideAdd(a, b) == <<a[1] + b[1] + (a[2] + b[2]) \div 65536, (a[2] + b[2]) % 65536>>
WideLess(a, b) == a[1] < b[1] \/ (a[1] = b[1] /\ a[2] < b[2])

\* struct '<H' and '<I'
PackU16(n) == <<n % 256, n \div 256>>
UnpackU16(b) == b[1] + 256 * b[2]
PackBE16(n) == <<n \div 256, n % 256>>
\* Mutant: the 32-bit fields are packed big-endian.
PackU32_BigEndian(x) == PackBE16(x[1]) \o PackBE16(x[2])
PackU32(x) == PackU16(x[2]) \o PackU16(x[1])
UnpackU32(b) == <<UnpackU16(SubSeq(b, 3, 4)), UnpackU16(SubSeq(b, 1, 2))>>

\* zlib.crc32: the reflected CRC-32 (polynomial 0xEDB88320), bit by bit, on
\* the two 16-bit halves of the register.
RECURSIVE Xor(_, _)
Xor(a, b) ==
    IF a = 0 THEN b
    ELSE IF b = 0 THEN a
    ELSE ((a + b) % 2) + 2 * Xor(a \div 2, b \div 2)

CRC_POLY == <<60856, 33568>>           \* 0xEDB8, 0x8320

\* one bit of the register: shift right, and xor the polynomial in when the
\* bit shifted out is set
RECURSIVE CrcShift(_, _)
CrcShift(reg, n) ==
    IF n = 0
    THEN reg
    ELSE LET hi == reg[1] \div 2
             lo == (reg[2] \div 2) + 32768 * (reg[1] % 2)
         IN  IF reg[2] % 2 = 1
             THEN CrcShift(<<Xor(hi, CRC_POLY[1]), Xor(lo, CRC_POLY[2])>>, n - 1)
             ELSE CrcShift(<<hi, lo>>, n - 1)

\* the register after the first i bytes
RECURSIVE CrcUpdate(_, _)
CrcUpdate(bytes, i) ==
    IF i = 0
    THEN <<65535, 65535>>
    ELSE LET reg == CrcUpdate(bytes, i - 1)
         IN  CrcShift(<<reg[1], Xor(reg[2], bytes[i])>>, 8)

crc32(bytes) ==
    LET reg == CrcUpdate(bytes, Len(bytes))
    IN  <<65535 - reg[1], 65535 - reg[2]>>

\* The still-image codec (Pillow's JPEG plugin) is outside the repository.
\* It is stood in for by a codec with the shape of a JPEG stream: a start
\* marker, the frame's height and width (big-endian, as in a SOF segment), the
\* samples (a grid of one grey level, quantised more coarsely at lower
\* quality), and an end marker.  What the container code needs of it is only
\* that the stream carries its own dimensions and that garbage does not open.
UnpackBE16(b) == 256 * b[1] + b[2]

QuantStep(quality) == 1 + (100 - quality) \div 25

\* Image.fromarray(cfa_data.astype(np.uint8), mode='L').save(.., format='JPEG', quality=quality)
JpegSave(cfa_data, quality) ==
    <<255, 216>> \o PackBE16(cfa_data.height) \o PackBE16(cfa_data.width)
        \o <<(cfa_data.fill \div QuantStep(quality)) * QuantStep(quality)>>
        \o <<255, 217>>

\* np.array(Image.open(BytesIO(jpeg_data))); any exception is caught by the caller
JpegOpen(jpeg_data) ==
    IF /\ Len(jpeg_data) = 9
       /\ SubSeq(jpeg_data, 1, 2) = <<255, 216>>
       /\ SubSeq(jpeg_data, 8, 9) = <<255, 217>>
       /\ UnpackBE16(SubSeq(jpeg_data, 3, 4)) > 0
       /\ UnpackBE16(SubSeq(jpeg_data, 5, 6)) > 0
    THEN Return([ndim |-> 2,
                 height |-> UnpackBE16(SubSeq(jpeg_data, 3, 4)),
                 width |-> UnpackBE16(SubSeq(jpeg_data, 5, 6)),
                 fill |-> jpeg_data[7]])
    ELSE Raise("cannot identify image file")

\* Mutant: width and height are packed in the other order.
PackHeader_HeightFirst(version, pattern_id, width, height, quality, jpeg_len, crc) ==
    MOSAIC_MAGIC \o <<version, pattern_id>> \o PackU16(height) \o PackU16(width)
        \o <<quality, 0>> \o PackU32(jpeg_len) \o PackU32(crc)

\* struct.pack('<4sBBHHBBII', MOSAIC_MAGIC, version, pattern_id, width, height,
\*             quality, 0, jpeg_len, crc)
PackHeader(version, pattern_id, width, height, quality, jpeg_len, crc) ==
    MOSAIC_MAGIC \o <<version, pattern_id>> \o PackU16(width) \o PackU16(height)
        \o <<quality, 0>> \o PackU32(jpeg_len) \o PackU32(crc)

\* struct.unpack('<BBHHBBII', data[4:HEADER_SIZE])
UnpackHeader(data) ==
    [version |-> data[5],
     pattern_id |-> data[6],
     width |-> UnpackU16(SubSeq(data, 7, 8)),
     height |-> UnpackU16(SubSeq(data, 9, 10)),
     quality |-> data[11],
     reserved |-> data[12],
     jpeg_len |-> UnpackU32(SubSeq(data, 13, 16)),
     stored_crc |-> UnpackU32(SubSeq(data, 17, 20))]

\* dict.get(key, default)
Get(dict, key, default) == IF key \in DOMAIN dict THEN dict[key] ELSE default

\* Mutant: the dimension guard is off by one.
encode_mosaic_DimOffByOne(cfa_data, pattern, quality) ==
    IF cfa_data.ndim # 2
    THEN Raise("InvalidShape")
    ELSE IF ~(1 <= quality /\ quality <= 100)
    THEN Raise("InvalidQuality")
    ELSE IF cfa_data.width > 65536 \/ cfa_data.height > 65536
    THEN Raise("DimensionTooLarge")
    ELSE LET jpeg_data == JpegSave(cfa_data, quality)
             crc == crc32(jpeg_data)
             pattern_id == Get(BAYER_PATTERNS, Upper(pattern), 0)
             header == PackHeader(MOSAIC_VERSION, pattern_id, cfa_data.width,
                                  cfa_data.height, quality, Wide(Len(jpeg_data)), crc)
         IN  Return(header \o jpeg_data)

\* The ValueErrors of encode_mosaic, by the kind the design names:
\*   "CFA data must be 2D array"            InvalidShape
\*   "Quality must be between 1 and 100"    InvalidQuality
\*   "Image dimensions must be <= 65535"    DimensionTooLarge
encode_mosaic(cfa_data, pattern, quality) ==
    IF cfa_data.ndim # 2
    THEN Raise("InvalidShape")
    ELSE IF ~(1 <= quality /\ quality <= 100)
    THEN Raise("InvalidQuality")
    ELSE IF cfa_data.width > 65535 \/ cfa_data.height > 65535
    THEN Raise("DimensionTooLarge")
    ELSE LET jpeg_data == JpegSave(cfa_data, quality)
             crc == crc32(jpeg_data)
             pattern_id == Get(BAYER_PATTERNS, Upper(pattern), 0)
             header == PackHeader(MOSAIC_VERSION, pattern_id, cfa_data.width,
                                  cfa_data.height, quality, Wide(Len(jpeg_data)), crc)
         IN  Return(header \o jpeg_data)

\* What a call of decode_mosaic / get_mosaic_info leaves behind: its result
\* and, in calls, the library calls it made on the payload, in order.
RaiseAfter(kind, calls) == [ok |-> FALSE, err |-> kind, calls |-> calls]
ReturnAfter(v, calls) == [ok |-> TRUE, err |-> "", val |-> v, calls |-> calls]

\* data[HEADER_SIZE:HEADER_SIZE + jpeg_len], taken once len(data) >= expected_size
Payload(data, jpeg_len) == SubSeq(data, HEADER_SIZE + 1, HEADER_SIZE + jpeg_len[2])

\* Mutant: the payload is opened without verifying its checksum.
decode_mosaic_NoCrcCheck(data) ==
    IF Len(data) < HEADER_SIZE
    THEN RaiseAfter("TooSmall", << >>)
    ELSE IF SubSeq(data, 1, 4) # MOSAIC_MAGIC
    THEN RaiseAfter("BadMagic", << >>)
    ELSE LET hd == UnpackHeader(data)
             expected_size == WideAdd(Wide(HEADER_SIZE), hd.jpeg_len)
         IN  IF hd.version # MOSAIC_VERSION
             THEN RaiseAfter("UnsupportedVersion", << >>)
             ELSE IF WideLess(Wide(Len(data)), expected_size)
             THEN RaiseAfter("Truncated", << >>)
             ELSE LET jpeg_data == Payload(data, hd.jpeg_len)
                      opened == JpegOpen(jpeg_data)
                  IN  IF ~opened.ok
                      THEN RaiseAfter("CodecFailure", <<"Image.open">>)
                      ELSE ReturnAfter(
                             [cfa |-> opened.val,
                              pattern |-> Get(PATTERN_NAMES, hd.pattern_id, "RGGB"),
                              metadata |-> [version |-> hd.version,
                                            width |-> hd.width,
                                            height |-> hd.height,
                                            quality |-> hd.quality,
                                            jpeg_size |-> hd.jpeg_len]],
                             <<"Image.open">>)

\* Mutant: the payload is opened first and its checksum verified afterwards.
decode_mosaic_OpenBeforeCrc(data) ==
    IF Len(data) < HEADER_SIZE
    THEN RaiseAfter("TooSmall", << >>)
    ELSE IF SubSeq(data, 1, 4) # MOSAIC_MAGIC
    THEN RaiseAfter("BadMagic", << >>)
    ELSE LET hd == UnpackHeader(data)
             expected_size == WideAdd(Wide(HEADER_SIZE), hd.jpeg_len)
         IN  IF hd.version # MOSAIC_VERSION
             THEN RaiseAfter("UnsupportedVersion", << >>)
             ELSE IF WideLess(Wide(Len(data)), expected_size)
             THEN RaiseAfter("Truncated", << >>)
             ELSE LET jpeg_data == Payload(data, hd.jpeg_len)
                      opened == JpegOpen(jpeg_data)
                      computed_crc == crc32(jpeg_data)
                  IN  IF ~opened.ok
                      THEN RaiseAfter("CodecFailure", <<"Image.open">>)
                      ELSE IF computed_crc # hd.stored_crc
                      THEN RaiseAfter("ChecksumMismatch", <<"Image.open", "crc32">>)
                      ELSE ReturnAfter(
                             [cfa |-> opened.val,
                              pattern |-> Get(PATTERN_NAMES, hd.pattern_id, "RGGB"),
                              metadata |-> [version |-> hd.version,
                                            width |-> hd.width,
                                            height |-> hd.height,
                                            quality |-> hd.quality,
                                            jpeg_size |-> hd.jpeg_len]],
                             <<"Image.open", "crc32">>)

\* The ValueErrors of decode_mosaic, by the kind the design names:
\*   "File too small to be a valid .mosaic file"   TooSmall
\*   "Invalid .mosaic file: bad magic number"      BadMagic
\*   "Unsupported .mosaic version"                 UnsupportedVersion
\*   "File truncated"                              Truncated
\*   "CRC mismatch: file may be corrupted"         ChecksumMismatch
\*   "Failed to decode JPEG data"                  CodecFailure
decode_mosaic(data) ==
    IF Len(data) < HEADER_SIZE
    THEN RaiseAfter("TooSmall", << >>)
    ELSE IF SubSeq(data, 1, 4) # MOSAIC_MAGIC
    THEN RaiseAfter("BadMagic", << >>)
    ELSE LET hd == UnpackHeader(data)
             expected_size == WideAdd(Wide(HEADER_SIZE), hd.jpeg_len)
         IN  IF hd.version # MOSAIC_VERSION
             THEN RaiseAfter("UnsupportedVersion", << >>)
             ELSE IF WideLess(Wide(Len(data)), expected_size)
             THEN RaiseAfter("Truncated", << >>)
             ELSE LET jpeg_data == Payload(data, hd.jpeg_len)
                      computed_crc == crc32(jpeg_data)
                  IN  IF computed_crc # hd.stored_crc
                      THEN RaiseAfter("ChecksumMismatch", <<"crc32">>)
                      ELSE LET opened == JpegOpen(jpeg_data)
                           IN  IF ~opened.ok
                               THEN RaiseAfter("CodecFailure", <<"crc32", "Image.open">>)
                               ELSE ReturnAfter(
                                      [cfa |-> opened.val,
                                       pattern |-> Get(PATTERN_NAMES, hd.pattern_id, "RGGB"),
                                       metadata |-> [version |-> hd.version,
                                                     width |-> hd.width,
                                                     height |-> hd.height,
                                                     quality |-> hd.quality,
                                                     jpeg_size |-> hd.jpeg_len]],
                                      <<"crc32", "Image.open">>)

\* get_mosaic_info raises "File too small" (TooSmall) and "Invalid .mosaic
\* file" (BadMagic) only.
get_mosaic_info(data) ==
    IF Len(data) < HEADER_SIZE
    THEN RaiseAfter("TooSmall", << >>)
    ELSE IF SubSeq(data, 1, 4) # MOSAIC_MAGIC
    THEN RaiseAfter("BadMagic", << >>)
    ELSE LET hd == UnpackHeader(data)
         IN  ReturnAfter([version |-> hd.version,
                          pattern |-> Get(PATTERN_NAMES, hd.pattern_id, "RGGB"),
                          width |-> hd.width,
                          height |-> hd.height,
                          quality |-> hd.quality,
                          compressed_size |-> hd.jpeg_len,
                          total_size |-> WideAdd(Wide(HEADER_SIZE), hd.jpeg_len)],
                         << >>)

(***************************************************************************)
(* The image side of the state machine: a caller samples its image, then   *)
(* visualizes, demosaics or asks for the masks of the sampled grid.        *)
(***************************************************************************)
Patterns == {"RGGB", "BGGR", "GRBG", "GBRG"}

NoOp == [name |-> "init", alg |-> "", pat |-> ""]

NoArray == [ndim |-> 0, h |-> 0, w |-> 0, ch |-> 0, px |-> << >>]

NoEncIn ==
    [cfa_data |-> [ndim |-> 0, height |-> 0, width |-> 0, fill |-> 0],
     pattern |-> "", quality |-> 0]

CodecIdle ==
    /\ encIn = NoEncIn
    /\ encOut = None
    /\ buf = << >>
    /\ decOut = None
    /\ infoOut = None
    /\ phase = "idle"

BayerIdle ==
    /\ img = NoArray
    /\ cfa = None
    /\ rgbOut = None
    /\ masksOut = None
    /\ op = NoOp

InitBayer ==
    /\ img \in RGBImages \cup BadShapeArrays
    /\ cfa = None
    /\ rgbOut = None
    /\ masksOut = None
    /\ op = NoOp
    /\ CodecIdle

\* cfa = apply_bayer_mosaic(original_image)
Sample ==
    /\ op.name = "init"
    /\ cfa' = apply_bayer_mosaic(img)
    /\ op' = [name |-> "sample", alg |-> "", pat |-> "RGGB"]
    /\ UNCHANGED <<img, rgbOut, masksOut>>
    /\ UNCHANGED codecVars

\* colorized = generate_colorized_view(cfa)
Visualize ==
    /\ cfa.ok
    /\ rgbOut' = generate_colorized_view(cfa.val)
    /\ masksOut' = None
    /\ op' = [name |-> "visualize", alg |-> "", pat |-> "RGGB"]
    /\ UNCHANGED <<img, cfa>>
    /\ UNCHANGED codecVars

\* reconstructed = demosaic(cfa, algorithm)
Demosaic ==
    /\ cfa.ok
    /\ \E algorithm \in Algorithms \cup {"lanczos"} :
          /\ rgbOut' = demosaic(cfa.val, algorithm)
          /\ op' = [name |-> "demosaic", alg |-> algorithm, pat |-> "RGGB"]
    /\ masksOut' = None
    /\ UNCHANGED <<img, cfa>>
    /\ UNCHANGED codecVars

\* R_mask, G_mask, B_mask = get_bayer_masks(h, w), by a caller whose active
\* pattern is pat: the function has no pattern parameter to receive it.
Masks ==
    /\ cfa.ok
    /\ \E pat \in Patterns :
          /\ masksOut' = Return(get_bayer_masks(cfa.val.h, cfa.val.w))
          /\ op' = [name |-> "masks", alg |-> "", pat |-> pat]
    /\ rgbOut' = None
    /\ UNCHANGED <<img, cfa>>
    /\ UNCHANGED codecVars

NextBayer == Sample \/ Visualize \/ Demosaic \/ Masks

SpecBayer == InitBayer /\ [][NextBayer]_vars

(***************************************************************************)
(* The container side of the state machine: a caller encodes a CFA grid or *)
(* receives a buffer from elsewhere, the buffer may be altered once (a     *)
(* byte overwritten, the tail cut off, a byte appended), and is then read  *)
(* with decode_mosaic and get_mosaic_info.                                 *)
(***************************************************************************)
\* (height, width) of the grids handed to encode_mosaic
DimPairs ==
    {<<1, 1>>, <<10, 10>>, <<3, 256>>, <<65535, 2>>, <<300, 65535>>,
     <<65536, 1>>, <<4, 70000>>}

Qualities == {0, 1, 90, 100, 101}

\* 2D grids of one grey level, and the same data as a 3D (H, W, 1) array
CfaInputs ==
    {[ndim |-> nd, height |-> d[1], width |-> d[2], fill |-> 128] :
        nd \in {2, 3}, d \in DimPairs}

EncodeInputs ==
    [cfa_data : CfaInputs, pattern : PatternArgs, quality : Qualities]

\* a container as another writer could have framed it
Frame(version, pattern_id, width, height, quality, payload) ==
    PackHeader(version, pattern_id, width, height, quality,
               Wide(Len(payload)), crc32(payload)) \o payload

Grey10x10 == [ndim |-> 2, height |-> 10, width |-> 10, fill |-> 128]

ForeignBuffers ==
    { << >>,
      <<137, 80, 78, 71, 13, 10, 26, 10>> \o [i \in 1 .. 16 |-> 0],
      Frame(1, 0, 2, 2, 90, <<1, 2, 3>>),
      Frame(1, 0, 5, 5, 90, << >>),
      Frame(1, 7, 10, 10, 90, JpegSave(Grey10x10, 90)),
      Frame(2, 1, 10, 10, 90, JpegSave(Grey10x10, 90)),
      Frame(2, 1, 10, 10, 90, <<1, 2, 3>>),
      PackHeader(3, 0, 2, 2, 90, Wide(3), <<0, 0>>) \o <<1, 2, 3>>,
      PackHeader(1, 0, 2, 2, 90, Wide(3), <<0, 0>>) \o <<1, 2, 3>> }

ByteSamples == {0, 1, 2, 255}

InitCodec == BayerIdle /\ CodecIdle

\* data = encode_mosaic(cfa, pattern, quality)
Encode(inputs) ==
    /\ phase = "idle"
    /\ \E args \in inputs :
          LET out == encode_mosaic(args.cfa_data, args.pattern, args.quality)
          IN  /\ encIn' = args
              /\ encOut' = out
              /\ buf' = IF out.ok THEN out.val ELSE << >>
              /\ phase' = IF out.ok THEN "encoded" ELSE "rejected"
    /\ UNCHANGED <<decOut, infoOut>>
    /\ UNCHANGED bayerVars

\* a buffer arrives from storage or from another writer
Receive ==
    /\ phase = "idle"
    /\ buf' \in ForeignBuffers
    /\ phase' = "received"
    /\ UNCHANGED <<encIn, encOut, decOut, infoOut>>
    /\ UNCHANGED bayerVars

Readable == phase \in {"encoded", "received", "altered"}

\* one byte of the buffer is overwritten with another value
Tamper(values) ==
    /\ phase \in {"encoded", "received"}
    /\ decOut = None
    /\ \E i \in 1 .. Len(buf) :
          \E v \in values \ {buf[i]} :
             buf' = [buf EXCEPT ![i] = v]
    /\ phase' = "altered"
    /\ UNCHANGED <<encIn, encOut, decOut, infoOut>>
    /\ UNCHANGED bayerVars

\* the buffer loses its tail
Truncate ==
    /\ phase \in {"encoded", "received"}
    /\ decOut = None
    /\ \E n \in {0, HEADER_SIZE - 1, HEADER_SIZE, Len(buf) - 1} :
          /\ 0 <= n
          /\ n < Len(buf)
          /\ buf' = SubSeq(buf, 1, n)
    /\ phase' = "altered"
    /\ UNCHANGED <<encIn, encOut, decOut, infoOut>>
    /\ UNCHANGED bayerVars

\* the buffer gains a trailing byte
Pad ==
    /\ phase \in {"encoded", "received"}
    /\ decOut = None
    /\ buf' = Append(buf, 0)
    /\ phase' = "altered"
    /\ UNCHANGED <<encIn, encOut, decOut, infoOut>>
    /\ UNCHANGED bayerVars

\* cfa, pattern, metadata = decode_mosaic(data)
Decode ==
    /\ Readable
    /\ decOut = None
    /\ decOut' = decode_mosaic(buf)
    /\ UNCHANGED <<encIn, encOut, buf, infoOut, phase>>
    /\ UNCHANGED bayerVars

\* info = get_mosaic_info(data)
Inspect ==
    /\ Readable
    /\ decOut # None
    /\ infoOut = None
    /\ infoOut' = get_mosaic_info(buf)
    /\ UNCHANGED <<encIn, encOut, buf, decOut, phase>>
    /\ UNCHANGED bayerVars

Next ==
    \/ Encode(EncodeInputs)
    \/ Receive
    \/ Tamper(ByteSamples)
    \/ Truncate
    \/ Pad
    \/ Decode
    \/ Inspect

Spec == InitCodec /\ [][Next]_vars

(***************************************************************************)
(* Properties of the image side (checked under SpecBayer).                 *)
(***************************************************************************)
\* The channel (0 = R, 1 = G, 2 = B) that RGGB assigns to a position.
RGGBChannel(p) ==
    IF p[1] % 2 = 0 /\ p[2] % 2 = 0 THEN 0
    ELSE IF p[1] % 2 = 1 /\ p[2] % 2 = 1 THEN 2
    ELSE 1

\* The 2x2 tile of each pattern, row by row.
Tile ==
    [RGGB |-> <<0, 1, 1, 2>>, BGGR |-> <<2, 1, 1, 0>>,
     GRBG |-> <<1, 0, 2, 1>>, GBRG |-> <<1, 2, 0, 1>>]

PatternChannel(pat, p) == Tile[pat][2 * (p[1] % 2) + (p[2] % 2) + 1]

\* C1: for each of the three algorithms and every H x W grid, H, W >= 1,
\* demosaic returns an H x W grid with 3 channels.
C1_DemosaicKeepsShape ==
    (op.name = "demosaic" /\ op.alg \in Algorithms) =>
        /\ rgbOut.ok
        /\ rgbOut.val.h = cfa.val.h
        /\ rgbOut.val.w = cfa.val.w
        /\ rgbOut.val.ch = 3
        /\ DOMAIN rgbOut.val.px = Pos(cfa.val.h, cfa.val.w)
        /\ \A p \in Pos(cfa.val.h, cfa.val.w) : DOMAIN rgbOut.val.px[p] = 0 .. 2

MaskChannels(m, p) ==
    {k \in 0 .. 2 : IF k = 0 THEN m.R[p] ELSE IF k = 1 THEN m.G[p] ELSE m.B[p]}

\* C6 as stated: for each of the four patterns the masks have exactly one of
\* R, G, B true at every position, the one the given pattern assigns to
\* (row % 2, col % 2).
C6_MasksFollowPattern ==
    op.name = "masks" =>
        /\ masksOut.ok
        /\ \A p \in Pos(cfa.val.h, cfa.val.w) :
              MaskChannels(masksOut.val, p) = {PatternChannel(op.pat, p)}

\* C6 amended: the masks have exactly one of R, G, B true at every position,
\* the one RGGB assigns to (row % 2, col % 2), whatever pattern the caller has
\* in mind.
C6_MasksPartitionRGGB ==
    op.name = "masks" =>
        /\ masksOut.ok
        /\ DOMAIN masksOut.val.R = Pos(cfa.val.h, cfa.val.w)
        /\ DOMAIN masksOut.val.G = Pos(cfa.val.h, cfa.val.w)
        /\ DOMAIN masksOut.val.B = Pos(cfa.val.h, cfa.val.w)
        /\ \A p \in Pos(cfa.val.h, cfa.val.w) :
              MaskChannels(masksOut.val, p) = {RGGBChannel(p)}

C6_Witness ==
    /\ op.name = "masks"
    /\ op.pat = "BGGR"
    /\ masksOut.ok
    /\ cfa.val.h = 3
    /\ cfa.val.w = 2
    /\ masksOut.val.G[<<2, 1>>]

\* C7: for RGGB, sample returns an H x W grid holding R where row and column
\* are even, B where both are odd and G elsewhere; an input that is not a
\* 3-channel image fails with InvalidShape.
C7_SampleRGGB ==
    op.name # "init" =>
        IF img.ndim = 3 /\ img.ch = 3
        THEN /\ cfa.ok
             /\ cfa.val.ndim = 2
             /\ cfa.val.h = img.h
             /\ cfa.val.w = img.w
             /\ DOMAIN cfa.val.px = Pos(img.h, img.w)
             /\ \A p \in Pos(img.h, img.w) : cfa.val.px[p] = img.px[p][RGGBChannel(p)]
        ELSE cfa = Raise("InvalidShape")

C7_Witness ==
    /\ op.name = "sample"
    /\ cfa.ok
    /\ img.h = 3
    /\ img.w = 3
    /\ \A p \in Pos(3, 3) : Cardinality({img.px[p][k] : k \in 0 .. 2}) = 3
    /\ cfa.val.px[<<1, 1>>] = img.px[<<1, 1>>][2]
    /\ cfa.val.px[<<2, 1>>] = img.px[<<2, 1>>][1]

\* C8: visualize(sample(image)) holds, at every position, the image's value in
\* the channel the pattern assigns to the position and zero in the other two.
C8_VisualizeSample ==
    op.name = "visualize" =>
        /\ rgbOut.ok
        /\ rgbOut.val.h = img.h
        /\ rgbOut.val.w = img.w
        /\ DOMAIN rgbOut.val.px = Pos(img.h, img.w)
        /\ \A p \in Pos(img.h, img.w) :
              \A k \in 0 .. 2 :
                 rgbOut.val.px[p][k] = IF k = RGGBChannel(p) THEN img.px[p][k] ELSE 0

C8_Witness ==
    /\ op.name = "visualize"
    /\ rgbOut.ok
    /\ img.h = 3
    /\ img.w = 3
    /\ \A p \in Pos(3, 3) : \A k \in 0 .. 2 : img.px[p][k] > 0
    /\ rgbOut.val.px[<<1, 1>>] = [k \in 0 .. 2 |-> IF k = 2 THEN img.px[<<1, 1>>][2] ELSE 0]

\* The single-byte corruption study: a few containers, every byte position,
\* every other byte value.
FlipInputs ==
    { [cfa_data |-> Grey10x10, pattern |-> "BGGR", quality |-> 90],
      [cfa_data |-> [ndim |-> 2, height |-> 3, width |-> 256, fill |-> 128],
       pattern |-> "RGGB", quality |-> 100],
      [cfa_data |-> [ndim |-> 2, height |-> 1, width |-> 1, fill |-> 128],
       pattern |-> "gbrg", quality |-> 1] }

Bytes == 0 .. 255

NextFlip ==
    \/ Encode(FlipInputs)
    \/ Tamper(Bytes)
    \/ Decode

SpecFlip == InitCodec /\ [][NextFlip]_vars

(***************************************************************************)
(* Properties of the container side.                                       *)
(***************************************************************************)
Called == encIn # NoEncIn

ValidArgs(a) ==
    /\ a.cfa_data.ndim = 2
    /\ a.cfa_data.width \in 1 .. 65535
    /\ a.cfa_data.height \in 1 .. 65535
    /\ a.pattern \in Patterns
    /\ a.quality \in 1 .. 100

OnePayloadByteReplaced ==
    /\ phase = "altered"
    /\ encOut.ok
    /\ Len(buf) = Len(encOut.val)
    /\ \E i \in (HEADER_SIZE + 1) .. Len(buf) :
          /\ buf[i] # encOut.val[i]
          /\ \A j \in 1 .. Len(buf) : j # i => buf[j] = encOut.val[j]

\* C3: replacing any single payload byte (offset >= 20) of an encoded
\* container with any other value makes decode fail with ChecksumMismatch.
C3_PayloadFlipDetected ==
    (OnePayloadByteReplaced /\ decOut # None) =>
        /\ ~decOut.ok
        /\ decOut.err = "ChecksumMismatch"

C3_Witness ==
    /\ OnePayloadByteReplaced
    /\ decOut # None
    /\ decOut.err = "ChecksumMismatch"
    /\ encIn.pattern = "BGGR"
    /\ buf[Len(buf)] = 216
    /\ encOut.val[Len(buf)] = 217

\* The checks of decode, each read off the buffer.
DeclaredLen(data) == UnpackU32(SubSeq(data, 13, 16))
StoredCrc(data) == UnpackU32(SubSeq(data, 17, 20))
DeclaredPayload(data) == SubSeq(data, HEADER_SIZE + 1, HEADER_SIZE + DeclaredLen(data)[2])

FirstFailure(data) ==
    IF Len(data) < 20 THEN "TooSmall"
    ELSE IF SubSeq(data, 1, 4) # <<77, 79, 83, 65>> THEN "BadMagic"
    ELSE IF data[5] # 1 THEN "UnsupportedVersion"
    ELSE IF WideLess(Wide(Len(data) - 20), DeclaredLen(data)) THEN "Truncated"
    ELSE IF crc32(DeclaredPayload(data)) # StoredCrc(data) THEN "ChecksumMismatch"
    ELSE IF ~JpegOpen(DeclaredPayload(data)).ok THEN "CodecFailure"
    ELSE ""

ChecksumVerified(data) ==
    /\ FirstFailure(data) \notin {"TooSmall", "BadMagic", "UnsupportedVersion", "Truncated"}
    /\ crc32(DeclaredPayload(data)) = StoredCrc(data)

\* C4: decode reports the first failing check in the order TooSmall, BadMagic,
\* UnsupportedVersion, Truncated, ChecksumMismatch, CodecFailure, and invokes
\* the decompressor only on a payload whose CRC-32 equals the stored value.
C4_DecodeOrder ==
    decOut # None =>
        /\ decOut.err = FirstFailure(buf)
        /\ decOut.ok <=> FirstFailure(buf) = ""
        /\ "Image.open" \in {decOut.calls[i] : i \in 1 .. Len(decOut.calls)} =>
              /\ ChecksumVerified(buf)
              /\ decOut.calls = <<"crc32", "Image.open">>

\* a payload that is both corrupt for the checksum and garbage for the codec
C4_Witness ==
    /\ decOut # None
    /\ decOut.err = "ChecksumMismatch"
    /\ decOut.calls = <<"crc32">>
    /\ ~JpegOpen(DeclaredPayload(buf)).ok

EncodeFaults(a) ==
    {k \in {"InvalidShape", "InvalidQuality", "DimensionTooLarge"} :
        \/ k = "InvalidShape" /\ a.cfa_data.ndim # 2
        \/ k = "InvalidQuality" /\ (a.quality < 1 \/ a.quality > 100)
        \/ k = "DimensionTooLarge"
             /\ (a.cfa_data.width > 65535 \/ a.cfa_data.height > 65535)}

\* C5: encode fails with InvalidShape for a grid that is not 2D, with
\* InvalidQuality for a quality outside [1,100] and with DimensionTooLarge for
\* a side above 65535, returning no buffer; it raises none of the three for a
\* 2D grid with quality in [1,100] and sides <= 65535.
C5_EncodeErrors ==
    Called =>
        IF EncodeFaults(encIn) = {}
        THEN encOut.err \notin {"InvalidShape", "InvalidQuality", "DimensionTooLarge"}
        ELSE /\ ~encOut.ok
             /\ encOut.err \in EncodeFaults(encIn)
             /\ "val" \notin DOMAIN encOut
             /\ buf = << >>

C5_Witness ==
    /\ Called
    /\ encIn.cfa_data.ndim = 2
    /\ encIn.cfa_data.width = 70000
    /\ encIn.quality = 90
    /\ encOut.err = "DimensionTooLarge"
    /\ phase = "rejected"

PatternId == [RGGB |-> 0, BGGR |-> 1, GRBG |-> 2, GBRG |-> 3]

\* C9: a buffer returned by encode is 20 + N bytes: magic 'MOSA', version 1,
\* the pattern id, little-endian width and height, the quality, a zero byte,
\* the little-endian payload length N, and the CRC-32 of the N payload bytes.
C9_HeaderLayout ==
    (Called /\ encOut.ok) =>
        LET b == encOut.val
            N == Len(b) - 20
            w == encIn.cfa_data.width
            h == encIn.cfa_data.height
            c == crc32(SubSeq(b, 21, Len(b)))
        IN  /\ N >= 0
            /\ <<b[1], b[2], b[3], b[4]>> = <<77, 79, 83, 65>>
            /\ b[5] = 1
            /\ b[6] \in 0 .. 3
            /\ encIn.pattern \in Patterns => b[6] = PatternId[encIn.pattern]
            /\ <<b[7], b[8]>> = <<w % 256, w \div 256>>
            /\ <<b[9], b[10]>> = <<h % 256, h \div 256>>
            /\ b[11] = encIn.quality
            /\ b[12] = 0
            /\ <<b[13], b[14], b[15], b[16]>> = <<N % 256, (N \div 256) % 256, 0, 0>>
            /\ <<b[17], b[18], b[19], b[20]>>
                  = <<c[2] % 256, c[2] \div 256, c[1] % 256, c[1] \div 256>>

C9_Witness ==
    /\ Called
    /\ encOut.ok
    /\ encIn.pattern = "GBRG"
    /\ encIn.cfa_data.height = 3
    /\ encIn.cfa_data.width = 256
    /\ SubSeq(encOut.val, 6, 10) = <<3, 0, 1, 3, 0>>
    /\ Len(encOut.val) = 29

HeaderFaults == {"TooSmall", "BadMagic", "UnsupportedVersion", "Truncated"}

\* C10: inspect fails with TooSmall, BadMagic, UnsupportedVersion or Truncated
\* exactly when decode fails with that error, and a successful inspect gives
\* what it gives on the 20 header bytes alone.
C10_InspectValidatesLikeDecode ==
    (decOut # None /\ infoOut # None) =>
        /\ \A k \in HeaderFaults : infoOut.err = k <=> decOut.err = k
        /\ infoOut.ok => infoOut = get_mosaic_info(SubSeq(buf, 1, HEADER_SIZE))

\* C11: encode called with a pattern name that is not one of RGGB, BGGR, GRBG,
\* GBRG (in any letter case) is rejected, never encoded under a default
\* pattern id; an unrecognized pattern id is turned into RGGB only when decode
\* or inspect read it from a header.
C11_UnknownPatternRejected ==
    /\ (Called /\ Upper(encIn.pattern) \notin Patterns) => ~encOut.ok
    /\ (decOut # None /\ decOut.ok /\ buf[6] \notin 0 .. 3) =>
           decOut.val.pattern = "RGGB"
    /\ (infoOut # None /\ infoOut.ok /\ buf[6] \notin 0 .. 3) =>
           infoOut.val.pattern = "RGGB"

(***************************************************************************)
(* Properties of the demosaicing algorithms.                               *)
(***************************************************************************)
DemosaicedBy(alg) == op.name = "demosaic" /\ op.alg = alg

\* the complete 2x2 tiles of an h x w grid, by their top-left corner
CompleteTiles(h, w) ==
    {t \in Pos(h, w) : t[1] % 2 = 0 /\ t[2] % 2 = 0 /\ t[1] + 1 < h /\ t[2] + 1 < w}

TileColor(c, t) ==
    <<c.px[t],
      (c.px[<<t[1], t[2] + 1>>] + c.px[<<t[1] + 1, t[2]>>]) \div 2,
      c.px[<<t[1] + 1, t[2] + 1>>]>>

PixelColor(a, p) == <<a.px[p][0], a.px[p][1], a.px[p][2]>>

\* C12: nearest_neighbor on an H x W grid, H, W >= 2: the four output pixels
\* of every complete 2x2 tile at (y, x) equal (cfa[y,x], floor((cfa[y,x+1] +
\* cfa[y+1,x]) / 2), cfa[y+1,x+1]), the green sum taken without 8-bit
\* overflow; for odd H the last row equals the row above it, for odd W the
\* last column equals the column to its left; so every output pixel carries
\* the color of some complete tile and none keeps the initial zero.
C12_NearestNeighborTiles ==
    (DemosaicedBy("nearest_neighbor") /\ cfa.val.h >= 2 /\ cfa.val.w >= 2) =>
        LET c == cfa.val
            h == c.h
            w == c.w
        IN  /\ rgbOut.ok
            /\ \A t \in CompleteTiles(h, w) :
                  \A dy, dx \in 0 .. 1 :
                     PixelColor(rgbOut.val, <<t[1] + dy, t[2] + dx>>) = TileColor(c, t)
            /\ (h % 2 = 1) =>
                  \A x \in 0 .. (w - 1) :
                     PixelColor(rgbOut.val, <<h - 1, x>>) = PixelColor(rgbOut.val, <<h - 2, x>>)
            /\ (w % 2 = 1) =>
                  \A y \in 0 .. (h - 1) :
                     PixelColor(rgbOut.val, <<y, w - 1>>) = PixelColor(rgbOut.val, <<y, w - 2>>)
            /\ \A p \in Pos(h, w) :
                  \E t \in CompleteTiles(h, w) : PixelColor(rgbOut.val, p) = TileColor(c, t)

\* a 3 x 3 grid whose green sum exceeds 255, demosaiced to a nonzero corner
C12_Witness ==
    /\ DemosaicedBy("nearest_neighbor")
    /\ cfa.val.h = 3 /\ cfa.val.w = 3
    /\ cfa.val.px[<<0, 1>>] + cfa.val.px[<<1, 0>>] > 255
    /\ rgbOut.ok
    /\ rgbOut.val.px[<<2, 2>>][1] > 127
    /\ PixelColor(rgbOut.val, <<2, 2>>) = TileColor(cfa.val, <<0, 0>>)

\* cfa[r, c] with an out-of-range index reflected at the boundary
CfaAt(c, r, k) == c.px[<<Reflect(r, c.h), Reflect(k, c.w)>>]

\* v is q rounded down or up, for the rational q = num / den
Near(v, num, den) == den * v > num - den /\ den * v < num + den

GreenCross(c, p) ==
    CfaAt(c, p[1] - 1, p[2]) + CfaAt(c, p[1] + 1, p[2])
        + CfaAt(c, p[1], p[2] - 1) + CfaAt(c, p[1], p[2] + 1)

\* C13: bilinear: at every red or blue position (r, c) the output green value
\* is (cfa[r-1,c] + cfa[r+1,c] + cfa[r,c-1] + cfa[r,c+1]) / 4, out-of-range
\* indices reflected at the boundary (to within the final conversion to an
\* integer), whatever the sample cfa[r,c] is.
C13_BilinearGreenIsCrossAverage ==
    DemosaicedBy("bilinear") =>
        /\ rgbOut.ok
        /\ \A p \in Pos(cfa.val.h, cfa.val.w) :
              RGGBChannel(p) # 1 =>
                 Near(rgbOut.val.px[p][1], GreenCross(cfa.val, p), 4)

InRange(c, r, k) == r \in 0 .. (c.h - 1) /\ k \in 0 .. (c.w - 1)

\* C14: bilinear: a missing red or blue value at a green position is the sum
\* of its two same-color neighbours (in the row in a row of that color, in
\* the column otherwise) divided by 2; a missing red at a blue position or
\* blue at a red position is the sum of the four diagonal neighbours divided
\* by 4.  Stated where the named neighbours lie inside the grid, to within
\* the final conversion to an integer.
C14_BilinearRedBlueAverages ==
    DemosaicedBy("bilinear") =>
        /\ rgbOut.ok
        /\ \A p \in Pos(cfa.val.h, cfa.val.w) :
              LET c == cfa.val
                  r == p[1]
                  k == p[2]
                  out == rgbOut.val.px[p]
                  horiz == c.px[<<r, k - 1>>] + c.px[<<r, k + 1>>]
                  vert == c.px[<<r - 1, k>>] + c.px[<<r + 1, k>>]
                  diag == c.px[<<r - 1, k - 1>>] + c.px[<<r - 1, k + 1>>]
                            + c.px[<<r + 1, k - 1>>] + c.px[<<r + 1, k + 1>>]
                  hasHoriz == InRange(c, r, k - 1) /\ InRange(c, r, k + 1)
                  hasVert == InRange(c, r - 1, k) /\ InRange(c, r + 1, k)
                  hasDiag == InRange(c, r - 1, k - 1) /\ InRange(c, r + 1, k + 1)
              IN  /\ (r % 2 = 0 /\ k % 2 = 1 /\ hasHoriz) => Near(out[0], horiz, 2)
                  /\ (r % 2 = 0 /\ k % 2 = 1 /\ hasVert) => Near(out[2], vert, 2)
                  /\ (r % 2 = 1 /\ k % 2 = 0 /\ hasVert) => Near(out[0], vert, 2)
                  /\ (r % 2 = 1 /\ k % 2 = 0 /\ hasHoriz) => Near(out[2], horiz, 2)
                  /\ (r % 2 = 1 /\ k % 2 = 1 /\ hasDiag) => Near(out[0], diag, 4)
                  /\ (r % 2 = 0 /\ k % 2 = 0 /\ hasDiag) => Near(out[2], diag, 4)

Interpolating == {"bilinear", "malvar_he_cutler"}

AssignmentsOf(alg, c) ==
    IF alg = "bilinear" THEN bilinear_assignments(c) ELSE malvar_he_cutler_assignments(c)

PlaneName == [k \in 0 .. 2 |-> IF k = 0 THEN "R" ELSE IF k = 1 THEN "G" ELSE "B"]

\* the assignments of the given kind that write plane k at position p
WritesAt(steps, k, p, kind) ==
    {i \in DOMAIN steps :
        steps[i].plane = PlaneName[k] /\ steps[i].kind = kind /\ steps[i].mask[p]}

\* C15: bilinear and malvar_he_cutler: at every position (r, c) the output
\* channel that RGGB assigns to (r, c) equals cfa[r, c]; no interpolation
\* writes a known sample, and each of the other two channels at (r, c) is
\* written by exactly one interpolation.
C15_KnownSamplesKept ==
    (op.name = "demosaic" /\ op.alg \in Interpolating) =>
        /\ rgbOut.ok
        /\ LET steps == AssignmentsOf(op.alg, cfa.val)
           IN  \A p \in Pos(cfa.val.h, cfa.val.w) :
                  \A k \in 0 .. 2 :
                     IF k = RGGBChannel(p)
                     THEN /\ rgbOut.val.px[p][k] = cfa.val.px[p]
                          /\ Cardinality(WritesAt(steps, k, p, "copy")) = 1
                          /\ WritesAt(steps, k, p, "interp") = {}
                     ELSE /\ WritesAt(steps, k, p, "copy") = {}
                          /\ Cardinality(WritesAt(steps, k, p, "interp")) = 1

\* a 3 x 3 grid with a known sample that differs from its interpolated
\* neighbours, demosaiced by malvar_he_cutler
C15_Witness ==
    /\ DemosaicedBy("malvar_he_cutler")
    /\ cfa.val.h = 3 /\ cfa.val.w = 3
    /\ rgbOut.ok
    /\ rgbOut.val.px[<<1, 1>>][2] = cfa.val.px[<<1, 1>>]
    /\ rgbOut.val.px[<<1, 1>>][0] # cfa.val.px[<<1, 1>>]
    /\ rgbOut.val.px[<<1, 1>>][1] # cfa.val.px[<<1, 1>>]
    /\ cfa.val.px[<<1, 1>>] > 0

\* the interpolated planes of the call, scaled by Den
PlanesOf(alg, c) == Planes(c.h, c.w, AssignmentsOf(alg, c))

PlaneValue(pl, k, p) == IF k = 0 THEN pl.R[p] ELSE IF k = 1 THEN pl.G[p] ELSE pl.B[p]

\* v, scaled by Den, clamped to [0, 255]
Clamped(v) == IF v < 0 THEN 0 ELSE IF v > 255 * Den THEN 255 * Den ELSE v

Abs(x) == IF x < 0 THEN -x ELSE x

\* C16 as stated: bilinear and malvar_he_cutler: every output sample is the
\* interpolated plane value clamped to [0, 255] and then rounded to the
\* nearest integer (10.75 yields 11).
C16_ClampThenRound ==
    (op.name = "demosaic" /\ op.alg \in Interpolating) =>
        /\ rgbOut.ok
        /\ LET pl == PlanesOf(op.alg, cfa.val)
           IN  \A p \in Pos(cfa.val.h, cfa.val.w) :
                  \A k \in 0 .. 2 :
                     2 * Abs(Den * rgbOut.val.px[p][k] - Clamped(PlaneValue(pl, k, p))) <= Den

\* C16, amended: every output sample is the interpolated plane value clamped
\* to [0, 255] and then truncated, its fraction dropped: 10.75 yields 10, a
\* negative value 0 and a value above 255 yields 255.
C16_ClampThenTruncate ==
    (op.name = "demosaic" /\ op.alg \in Interpolating) =>
        /\ rgbOut.ok
        /\ LET pl == PlanesOf(op.alg, cfa.val)
           IN  \A p \in Pos(cfa.val.h, cfa.val.w) :
                  \A k \in 0 .. 2 :
                     LET v == Clamped(PlaneValue(pl, k, p))
                         out == rgbOut.val.px[p][k]
                     IN  /\ out \in 0 .. 255
                         /\ Den * out <= v
                         /\ v < Den * out + Den

\* one call whose planes hold a value with a fraction above one half inside
\* [0, 255], a negative value and a value above 255
C16_Witness ==
    /\ op.name = "demosaic" /\ op.alg \in Interpolating
    /\ rgbOut.ok
    /\ LET pl == PlanesOf(op.alg, cfa.val)
           S == Pos(cfa.val.h, cfa.val.w) \X (0 .. 2)
       IN  /\ \E x \in S :
                LET v == PlaneValue(pl, x[2], x[1])
                IN  /\ v > 0 /\ v < 255 * Den
                    /\ 2 * (v % Den) > Den
                    /\ rgbOut.val.px[x[1]][x[2]] = v \div Den
           /\ \E x \in S :
                /\ PlaneValue(pl, x[2], x[1]) < 0
                /\ rgbOut.val.px[x[1]][x[2]] = 0
           /\ \E x \in S :
                /\ PlaneValue(pl, x[2], x[1]) > 255 * Den
                /\ rgbOut.val.px[x[1]][x[2]] = 255

\* every pixel of the image has the color of its first pixel
FlatImage(a) == \A p \in Pos(a.h, a.w) : a.px[p] = a.px[<<0, 0>>]

\* C17: malvar_he_cutler reconstructs flat colors: for an H x W image,
\* H, W >= 2, whose channels are constant (R = a, G = b, B = c everywhere),
\* demosaicing its sampled grid gives (a, b, c) at every pixel.
C17_MalvarFlatExact ==
    (DemosaicedBy("malvar_he_cutler") /\ FlatImage(img) /\ img.h >= 2 /\ img.w >= 2) =>
        /\ rgbOut.ok
        /\ \A p \in Pos(img.h, img.w) :
              PixelColor(rgbOut.val, p) = PixelColor(img, p)

====
